---- MODULE Spec2Model ----
(***************************************************************************)
(* The peering operator (src/src/operator/index.ts): the Resource Store it *)
(* talks to, the reconcile of one PeeringServer as a sequence of awaited   *)
(* API calls, the initial sync and the watch loop of start().              *)
(*                                                                         *)
(* Every await of the code is one step: the request reaches the store and  *)
(* its response is handled up to the next await.  Promises that nobody     *)
(* awaits (the handleEvent calls of the watch callback) are tasks of their *)
(* own, interleaved with each other at their awaits.                       *)
(***************************************************************************)
EXTENDS Integers, Sequences, FiniteSets, TLC

(* ------------------------------ bounds --------------------------------- *)
\* user-made changes of PeeringServers (create, modify, delete)
MaxUserOps == 3
\* handleEvent promises in flight together
MaxTasks == 2
\* watch streams open together
MaxStreams == 1
\* environment faults: failed API calls, external edits of owned objects,
\* broken watch streams
MaxFaults == 1

(* --------------------------- program constants ------------------------- *)
DefaultPort == 8080

(* ------------------------------ data ----------------------------------- *)
Names == {"ps", "pt"}
NameSeq == <<"ps", "pt">>
\* The PeeringServers the users of Spec create, modify and delete.
EditedNames == {"ps"}
WatchNamespace == "default"

\* PeeringServerSpec; port 0 stands for an unset port (both are falsy).
SpecChoices ==
  { [replicas |-> 2, pingInterval |-> 5000, port |-> 0],
    [replicas |-> 1, pingInterval |-> 1000, port |-> 9090],
    [replicas |-> -1, pingInterval |-> 0, port |-> 0] }

Absent == [exists |-> FALSE]
NoOwner == [name |-> "", uid |-> 0, controller |-> FALSE, blockOwnerDeletion |-> FALSE]

ConfigMapName(name) == name \o "-config"
ServiceName(name) == name \o "-headless"
StatefulSetName(name) == name
ObjNames == UNION { {ConfigMapName(n), ServiceName(n), StatefulSetName(n)} : n \in Names }

\* metadata.namespace || this.namespace
NamespaceOf(ps) == IF ps.namespace # "" THEN ps.namespace ELSE WatchNamespace
\* spec.port || 8080
PortOf(ps) == IF ps.spec.port # 0 THEN ps.spec.port ELSE DefaultPort

PeerHost(name, namespace, i) ==
  name \o "-" \o ToString(i) \o "." \o name \o "-headless." \o namespace \o ".svc.cluster.local"

RECURSIVE PeerLoop(_, _, _, _, _, _)
PeerLoop(peers, i, name, namespace, replicas, port) ==
  IF i < replicas
  THEN PeerLoop(Append(peers, [host |-> PeerHost(name, namespace, i), port |-> port]),
                i + 1, name, namespace, replicas, port)
  ELSE peers

generatePeerList(name, namespace, replicas, port) ==
  PeerLoop(<<>>, 0, name, namespace, replicas, port)

OwnerRef(ps) ==
  [name |-> ps.name, uid |-> ps.uid, controller |-> TRUE, blockOwnerDeletion |-> TRUE]

createConfigMap(ps, peers) ==
  [exists |-> TRUE,
   name |-> ConfigMapName(ps.name),
   namespace |-> NamespaceOf(ps),
   owner |-> OwnerRef(ps),
   data |-> [peers |-> peers, pingInterval |-> ps.spec.pingInterval]]

createHeadlessService(ps) ==
  [exists |-> TRUE,
   name |-> ServiceName(ps.name),
   namespace |-> NamespaceOf(ps),
   owner |-> OwnerRef(ps),
   clusterIP |-> "None",
   selector |-> ps.name,
   port |-> PortOf(ps),
   targetPort |-> PortOf(ps)]

createStatefulSet(ps) ==
  [exists |-> TRUE,
   name |-> StatefulSetName(ps.name),
   namespace |-> NamespaceOf(ps),
   owner |-> OwnerRef(ps),
   serviceName |-> ServiceName(ps.name),
   replicas |-> ps.spec.replicas,
   selector |-> ps.name,
   containerPort |-> PortOf(ps),
   volumeConfigMap |-> ConfigMapName(ps.name)]

\* The ConfigMap one reconcile of ps writes (lines 330-337).
DesiredConfigMap(ps) ==
  createConfigMap(ps, generatePeerList(ps.name, NamespaceOf(ps), ps.spec.replicas, PortOf(ps)))

(* ------------------------------ state ---------------------------------- *)
VARIABLES
  peeringServers,  \* Resource Store: name -> PeeringServer or Absent
  configMaps,      \* Resource Store: object name -> ConfigMap or Absent
  services,        \* Resource Store: object name -> Service or Absent
  statefulSets,    \* Resource Store: object name -> StatefulSet or Absent
  resourceVersion, \* Resource Store: changes of PeeringServers made so far
  statefulSetStatus, \* Resource Store: name -> the status the StatefulSet of that name reports
  faults,          \* environment faults so far
  mainPc,          \* where start() stands
  syncItems,       \* syncExistingResources: the listed items not yet reconciled
  tasks,           \* reconcile invocations: 0 is the one start() awaits, 1.. are handleEvent promises
  streams,         \* watch streams: the events not yet passed to the callback
  undelivered,     \* history: resource versions of the events put on a watch stream for a
                   \* change and not yet passed to handleEvent (whatever the type they come with)
  settled,         \* history: the PeeringServer whose successful reconcile the owned objects still show
  erred            \* history: some step of some reconcile has raised an error

vars == <<peeringServers, configMaps, services, statefulSets, resourceVersion, statefulSetStatus, faults,
          mainPc, syncItems, tasks, streams, undelivered, settled, erred>>

\* The peering server (src/src/server/index.ts), one process.
VARIABLES
  proc,        \* "new" before the constructor, then "running", then "exited"
  file,        \* the file at CONFIG_PATH
  fileOps,     \* writes to the file so far
  config,      \* this.config
  timer,       \* this.pingIntervalId and the interval timer behind it
  pings,       \* axios requests in flight: tick, peer index, age
  tickCount,   \* pingAllPeers calls so far
  watcher,     \* this.configWatcher: open, and whether a change event is due
  reloaded,    \* history: the file's present content was loaded by the change handler
  listener,    \* the HTTP listener of app.listen
  inflight,    \* HTTP requests being served
  handlerPc,   \* where a signal handler stands
  signals      \* termination signals received so far

serverVars == <<proc, file, fileOps, config, timer, pings, tickCount, watcher, reloaded,
                listener, inflight, handlerPc, signals>>

storeVars == <<peeringServers, configMaps, services, statefulSets, resourceVersion>>
engineVars == <<mainPc, syncItems, streams, undelivered>>

TaskIds == 0..MaxTasks
HandlerIds == 1..MaxTasks
StreamIds == 1..MaxStreams

NoPS == [name |-> "", namespace |-> "", uid |-> 0, rv |-> 0, spec |-> [replicas |-> 0, pingInterval |-> 0, port |-> 0]]

\* A reconcile invocation that is not running.
Idle ==
  [pc |-> "idle", ps |-> NoPS, phase |-> "", err |-> "none", clusterIP |-> "None", clean |-> TRUE,
   replicas |-> 0, readyReplicas |-> 0]

ClosedStream == [open |-> FALSE, queue |-> <<>>]

Unsettled == [valid |-> FALSE, ps |-> NoPS]

\* What a list or a watch event carries of a stored PeeringServer.
PayloadOf(obj) ==
  [name |-> obj.name, namespace |-> obj.namespace, uid |-> obj.uid, rv |-> obj.rv, spec |-> obj.spec]

\* A JavaScript object with no property.
EmptyObject == [k \in {} |-> 0]

OperatorInit ==
  /\ peeringServers = [n \in Names |-> Absent]
  /\ configMaps = [o \in ObjNames |-> Absent]
  /\ services = [o \in ObjNames |-> Absent]
  /\ statefulSets = [o \in ObjNames |-> Absent]
  /\ resourceVersion = 0
  /\ statefulSetStatus = [n \in Names |-> EmptyObject]
  /\ faults = 0
  /\ mainPc = "sync_list"
  /\ syncItems = <<>>
  /\ tasks = [t \in TaskIds |-> Idle]
  /\ streams = [s \in StreamIds |-> ClosedStream]
  /\ undelivered = {}
  /\ settled = Unsettled
  /\ erred = FALSE

\* A faulty variant of DefaultConfig.
DefaultConfig_Short == [peers |-> <<>>, pingInterval |-> 6000]

\* this.config = { peers: [], pingInterval: 60000 } (server, line 44)
DefaultConfig == [peers |-> <<>>, pingInterval |-> 60000]

\* set, interval, remaining: the interval timer this.pingIntervalId refers to;
\* others: the interval timers still running that it no longer refers to.
NoTimer == [set |-> FALSE, interval |-> 0, remaining |-> 0, others |-> 0]

\* No file at CONFIG_PATH.
MissingFile == [exists |-> FALSE, json |-> FALSE, value |-> EmptyObject]

\* The server process before `new PeeringServer(PORT, CONFIG_PATH)`, with no config file.
ServerOff ==
  /\ proc = "new"
  /\ file = MissingFile
  /\ fileOps = 0
  /\ config = DefaultConfig
  /\ timer = NoTimer
  /\ pings = {}
  /\ tickCount = 0
  /\ watcher = [open |-> FALSE, pending |-> FALSE]
  /\ reloaded = FALSE
  /\ listener = "none"
  /\ inflight = 0
  /\ handlerPc = "none"
  /\ signals = 0

\* The operator process is started; the server is looked at in ServerSpec.
Init == OperatorInit /\ ServerOff

(* ---------------------- reconcile, step by step ------------------------ *)
\* reconcile(peeringServer) up to its first await (lines 323-338).  The invocation
\* never reads the object's resource version, which is left out of what it holds.
BeginReconcile(t, ps) ==
  [tasks EXCEPT ![t] = [Idle EXCEPT !.pc = "cm_read", !.ps = [ps EXCEPT !.rv = 0]]]

Goto(t, pc) == tasks' = [tasks EXCEPT ![t].pc = pc]

\* A faulty variant of Throw: the error is noted and the reconcile goes on to the
\* StatefulSet.
Throw_GoesOn(t, kind) ==
  tasks' = [tasks EXCEPT ![t].pc = "sts_read", ![t].phase = "Failed", ![t].err = kind]

\* An error leaves the try block of reconcile: catch, then updateStatus(ps, 'Failed').
Throw(t, kind) ==
  tasks' = [tasks EXCEPT ![t].pc = "st_read", ![t].phase = "Failed", ![t].err = kind]

\* reconcile returns to its caller.
Return(t) == tasks' = [tasks EXCEPT ![t] = Idle]

\* The API call fails for a reason of the environment (network, 5xx).
ApiFault == faults < MaxFaults /\ faults' = faults + 1
NoFault == faults' = faults

\* The mutant of PreserveClusterIP: the desired Service goes out as built.
PreserveClusterIP_Dropped(service, existing) == service

\* service.spec.clusterIP = existing.body.spec.clusterIP (line 385)
PreserveClusterIP(service, existing) == [service EXCEPT !.clusterIP = existing.clusterIP]

\* The Service object the invocation holds: the desired one with the clusterIP it carries.
ServiceBody(task) == [createHeadlessService(task.ps) EXCEPT !.clusterIP = task.clusterIP]

(* ------------------------------ history -------------------------------- *)
\* Invocation t returns (from updateStatus, the last call of both branches of reconcile).
Completes(t) == tasks[t].pc \in {"st_read", "st_patch"} /\ tasks'[t].pc = "idle"
\* ... having passed line 349: none of its three createOrUpdate calls threw.
CompletesOK(t) == Completes(t) /\ tasks[t].phase = "Running"

\* The owned objects are what invocation `task` wrote, each of them.
HoldsWritesOf(task, cms, svcs, stss) ==
  /\ cms[ConfigMapName(task.ps.name)] = DesiredConfigMap(task.ps)
  /\ svcs[ServiceName(task.ps.name)] = ServiceBody(task)
  /\ stss[StatefulSetName(task.ps.name)] = createStatefulSet(task.ps)

\* settled: set when a reconcile returns successfully with its writes in place and
\* nobody else edited the objects under it; dropped when an owned object changes.
\* erred: set when a reconcile enters its catch (line 350).
\* No step of the operator or of the store touches the server process.
Track ==
  /\ UNCHANGED serverVars
  /\ UNCHANGED statefulSetStatus
  /\ erred' = (erred \/ \E t \in TaskIds : tasks'[t].err # "none")
  /\ settled' =
    IF \E t \in TaskIds : CompletesOK(t) /\ tasks[t].clean
                            /\ HoldsWritesOf(tasks[t], configMaps', services', statefulSets')
    THEN [valid |-> TRUE,
          ps |-> tasks[CHOOSE t \in TaskIds : CompletesOK(t) /\ tasks[t].clean
                            /\ HoldsWritesOf(tasks[t], configMaps', services', statefulSets')].ps]
    ELSE IF <<configMaps, services, statefulSets>>' # <<configMaps, services, statefulSets>>
         THEN Unsettled
         ELSE settled

(* createOrUpdateConfigMap (lines 358-376) *)
ReadConfigMap(t) ==
  /\ tasks[t].pc = "cm_read"
  /\ \/ ApiFault /\ Throw(t, "other")
     \/ NoFault /\ configMaps[ConfigMapName(tasks[t].ps.name)].exists /\ Goto(t, "cm_replace")
     \/ NoFault /\ ~configMaps[ConfigMapName(tasks[t].ps.name)].exists /\ Goto(t, "cm_create")
  /\ UNCHANGED <<storeVars, engineVars>>
  /\ Track

\* The mutant of ReplacedConfigMap: the new peers are merged into the stored ones.
ReplacedConfigMap_Merged(existing, cm) ==
  [cm EXCEPT !.data.peers = existing.data.peers \o @]

\* What a replace leaves in the store: the object sent, nothing of the stored one (line 365).
ReplacedConfigMap(existing, cm) == cm

\* replaceNamespacedConfigMap: the whole object is overwritten; a 404 falls into the catch.
ReplaceConfigMap(t) ==
  /\ tasks[t].pc = "cm_replace"
  /\ LET cm == DesiredConfigMap(tasks[t].ps) IN
     \/ ApiFault /\ Throw(t, "other") /\ UNCHANGED configMaps
     \/ NoFault /\ configMaps[cm.name].exists
          /\ configMaps' = [configMaps EXCEPT ![cm.name] = ReplacedConfigMap(@, cm)]
          /\ Goto(t, "svc_read")
     \/ NoFault /\ ~configMaps[cm.name].exists /\ Goto(t, "cm_create") /\ UNCHANGED configMaps
  /\ UNCHANGED <<peeringServers, services, statefulSets, resourceVersion, engineVars>>
  /\ Track

\* createNamespacedConfigMap inside the catch: whatever it throws leaves createOrUpdateConfigMap.
CreateConfigMap(t) ==
  /\ tasks[t].pc = "cm_create"
  /\ LET cm == DesiredConfigMap(tasks[t].ps) IN
     \/ ApiFault /\ Throw(t, "other") /\ UNCHANGED configMaps
     \/ NoFault /\ configMaps[cm.name].exists /\ Throw(t, "conflict") /\ UNCHANGED configMaps
     \/ NoFault /\ ~configMaps[cm.name].exists
          /\ configMaps' = [configMaps EXCEPT ![cm.name] = cm]
          /\ Goto(t, "svc_read")
  /\ UNCHANGED <<peeringServers, services, statefulSets, resourceVersion, engineVars>>
  /\ Track

(* createOrUpdateService (lines 378-397) *)
ReadService(t) ==
  /\ tasks[t].pc = "svc_read"
  /\ LET existing == services[ServiceName(tasks[t].ps.name)] IN
     \/ ApiFault /\ Throw(t, "other")
     \/ NoFault /\ existing.exists
          /\ tasks' = [tasks EXCEPT
               ![t].pc = "svc_replace",
               ![t].clusterIP = PreserveClusterIP(createHeadlessService(tasks[t].ps), existing).clusterIP]
     \/ NoFault /\ ~existing.exists /\ Goto(t, "svc_create")
  /\ UNCHANGED <<storeVars, engineVars>>
  /\ Track

\* replaceNamespacedService; the store refuses a replace that changes clusterIP (422).
ReplaceService(t) ==
  /\ tasks[t].pc = "svc_replace"
  /\ LET svc == ServiceBody(tasks[t]) IN
     \/ ApiFault /\ Throw(t, "other") /\ UNCHANGED services
     \/ NoFault /\ services[svc.name].exists /\ services[svc.name].clusterIP # svc.clusterIP
          /\ Throw(t, "other") /\ UNCHANGED services
     \/ NoFault /\ services[svc.name].exists /\ services[svc.name].clusterIP = svc.clusterIP
          /\ services' = [services EXCEPT ![svc.name] = svc]
          /\ Goto(t, "sts_read")
     \/ NoFault /\ ~services[svc.name].exists /\ Goto(t, "svc_create") /\ UNCHANGED services
  /\ UNCHANGED <<peeringServers, configMaps, statefulSets, resourceVersion, engineVars>>
  /\ Track

CreateService(t) ==
  /\ tasks[t].pc = "svc_create"
  /\ LET svc == ServiceBody(tasks[t]) IN
     \/ ApiFault /\ Throw(t, "other") /\ UNCHANGED services
     \/ NoFault /\ services[svc.name].exists /\ Throw(t, "conflict") /\ UNCHANGED services
     \/ NoFault /\ ~services[svc.name].exists
          /\ services' = [services EXCEPT ![svc.name] = svc]
          /\ Goto(t, "sts_read")
  /\ UNCHANGED <<peeringServers, configMaps, statefulSets, resourceVersion, engineVars>>
  /\ Track

(* createOrUpdateStatefulSet (lines 399-417) *)
\* The store refuses a StatefulSet with negative replicas (422).
StoreAcceptsStatefulSet(sts) == sts.replicas >= 0

ReadStatefulSet(t) ==
  /\ tasks[t].pc = "sts_read"
  /\ \/ ApiFault /\ Throw(t, "other")
     \/ NoFault /\ statefulSets[StatefulSetName(tasks[t].ps.name)].exists /\ Goto(t, "sts_replace")
     \/ NoFault /\ ~statefulSets[StatefulSetName(tasks[t].ps.name)].exists /\ Goto(t, "sts_create")
  /\ UNCHANGED <<storeVars, engineVars>>
  /\ Track

\* The three writes are done: updateStatus(ps, 'Running') (line 349).
WritesDone(t) == tasks' = [tasks EXCEPT ![t].pc = "st_read", ![t].phase = "Running"]

ReplaceStatefulSet(t) ==
  /\ tasks[t].pc = "sts_replace"
  /\ LET sts == createStatefulSet(tasks[t].ps) IN
     \/ ApiFault /\ Throw(t, "other") /\ UNCHANGED statefulSets
     \/ NoFault /\ statefulSets[sts.name].exists /\ ~StoreAcceptsStatefulSet(sts)
          /\ Throw(t, "other") /\ UNCHANGED statefulSets
     \/ NoFault /\ statefulSets[sts.name].exists /\ StoreAcceptsStatefulSet(sts)
          /\ statefulSets' = [statefulSets EXCEPT ![sts.name] = sts]
          /\ WritesDone(t)
     \/ NoFault /\ ~statefulSets[sts.name].exists /\ Goto(t, "sts_create") /\ UNCHANGED statefulSets
  /\ UNCHANGED <<peeringServers, configMaps, services, resourceVersion, engineVars>>
  /\ Track

CreateStatefulSet(t) ==
  /\ tasks[t].pc = "sts_create"
  /\ LET sts == createStatefulSet(tasks[t].ps) IN
     \/ ApiFault /\ Throw(t, "other") /\ UNCHANGED statefulSets
     \/ NoFault /\ statefulSets[sts.name].exists /\ Throw(t, "conflict") /\ UNCHANGED statefulSets
     \/ NoFault /\ ~statefulSets[sts.name].exists /\ ~StoreAcceptsStatefulSet(sts)
          /\ Throw(t, "other") /\ UNCHANGED statefulSets
     \/ NoFault /\ ~statefulSets[sts.name].exists /\ StoreAcceptsStatefulSet(sts)
          /\ statefulSets' = [statefulSets EXCEPT ![sts.name] = sts]
          /\ WritesDone(t)
  /\ UNCHANGED <<peeringServers, configMaps, services, resourceVersion, engineVars>>
  /\ Track

(* updateStatus (lines 419-453): every error is caught and logged *)
\* A faulty variant of StatusField: a field the StatefulSet does not report reads as 1.
StatusField_One(status, key) == IF key \in DOMAIN status THEN status[key] ELSE 1

\* statefulSet.body.status?.replicas || 0 (lines 426-427)
StatusField(status, key) == IF key \in DOMAIN status THEN status[key] ELSE 0

\* const status = { replicas, readyReplicas, phase, lastUpdated } (lines 429-434), the
\* timestamp apart; the merge-patch { status } replaces these fields of the object.
PatchedStatus(obj, task) ==
  [obj EXCEPT !.phase = task.phase, !.replicas = task.replicas,
              !.readyReplicas = task.readyReplicas]

\* A faulty variant of ReadStatefulSetStatus: the failed status read fails the reconcile.
ReadStatefulSetStatus_Throws(t) ==
  /\ tasks[t].pc = "st_read"
  /\ \/ ApiFault /\ Throw(t, "other")
     \/ NoFault /\ statefulSets[StatefulSetName(tasks[t].ps.name)].exists /\ Goto(t, "st_patch")
     \/ NoFault /\ ~statefulSets[StatefulSetName(tasks[t].ps.name)].exists /\ Return(t)
  /\ UNCHANGED <<storeVars, engineVars>>
  /\ Track

ReadStatefulSetStatus(t) ==
  /\ tasks[t].pc = "st_read"
  /\ \/ ApiFault /\ Return(t)
     \/ NoFault /\ statefulSets[StatefulSetName(tasks[t].ps.name)].exists
          /\ tasks' = [tasks EXCEPT
                         ![t].pc = "st_patch",
                         ![t].replicas = StatusField(statefulSetStatus[tasks[t].ps.name], "replicas"),
                         ![t].readyReplicas =
                            StatusField(statefulSetStatus[tasks[t].ps.name], "readyReplicas")]
     \/ NoFault /\ ~statefulSets[StatefulSetName(tasks[t].ps.name)].exists /\ Return(t)
  /\ UNCHANGED <<storeVars, engineVars>>
  /\ Track

PatchStatus(t) ==
  /\ tasks[t].pc = "st_patch"
  /\ LET name == tasks[t].ps.name IN
     \/ ApiFault /\ UNCHANGED peeringServers
     \/ NoFault /\ peeringServers[name].exists
          /\ peeringServers' = [peeringServers EXCEPT ![name] = PatchedStatus(@, tasks[t])]
     \/ NoFault /\ ~peeringServers[name].exists /\ UNCHANGED peeringServers
  /\ Return(t)
  /\ UNCHANGED <<configMaps, services, statefulSets, resourceVersion, engineVars>>
  /\ Track

TaskStep(t) ==
  \/ ReadConfigMap(t) \/ ReplaceConfigMap(t) \/ CreateConfigMap(t)
  \/ ReadService(t) \/ ReplaceService(t) \/ CreateService(t)
  \/ ReadStatefulSet(t) \/ ReplaceStatefulSet(t) \/ CreateStatefulSet(t)
  \/ ReadStatefulSetStatus(t) \/ PatchStatus(t)

(* ------------------- the Resource Store's other clients ----------------- *)
\* The invocations in flight for `name` have seen the owned objects edited under them.
Disturb(name) ==
  [t \in TaskIds |->
     IF tasks[t].pc # "idle" /\ tasks[t].ps.name = name
     THEN [tasks[t] EXCEPT !.clean = FALSE]
     ELSE tasks[t]]

SomeStreamOpen == \E s \in StreamIds : streams[s].open

\* The store puts a watch event on every open stream.
Emit(event) ==
  /\ streams' = [s \in StreamIds |->
                   IF streams[s].open
                   THEN [streams[s] EXCEPT !.queue = Append(@, event)]
                   ELSE streams[s]]
  /\ undelivered' = IF SomeStreamOpen THEN undelivered \cup {event.object.rv} ELSE undelivered

UserCreate(name, spec) ==
  /\ resourceVersion < MaxUserOps
  /\ ~peeringServers[name].exists
  /\ resourceVersion' = resourceVersion + 1
  /\ LET obj == [exists |-> TRUE, name |-> name, namespace |-> WatchNamespace,
                 uid |-> resourceVersion', rv |-> resourceVersion', spec |-> spec,
                 phase |-> "", replicas |-> 0, readyReplicas |-> 0] IN
       /\ peeringServers' = [peeringServers EXCEPT ![name] = obj]
       /\ Emit([type |-> "ADDED", object |-> PayloadOf(obj)])
  /\ UNCHANGED <<configMaps, services, statefulSets, faults, mainPc, syncItems, tasks>>
  /\ Track

UserModify(name, spec) ==
  /\ resourceVersion < MaxUserOps
  /\ peeringServers[name].exists
  /\ peeringServers[name].spec # spec
  /\ resourceVersion' = resourceVersion + 1
  /\ LET obj == [peeringServers[name] EXCEPT !.spec = spec, !.rv = resourceVersion'] IN
       /\ peeringServers' = [peeringServers EXCEPT ![name] = obj]
       /\ Emit([type |-> "MODIFIED", object |-> PayloadOf(obj)])
  /\ UNCHANGED <<configMaps, services, statefulSets, faults, mainPc, syncItems, tasks>>
  /\ Track

UserDelete(name) ==
  /\ resourceVersion < MaxUserOps
  /\ peeringServers[name].exists
  /\ resourceVersion' = resourceVersion + 1
  /\ peeringServers' = [peeringServers EXCEPT ![name] = Absent]
  /\ Emit([type |-> "DELETED",
           object |-> PayloadOf([peeringServers[name] EXCEPT !.rv = resourceVersion'])])
  /\ UNCHANGED <<configMaps, services, statefulSets, faults, mainPc, syncItems, tasks>>
  /\ Track

\* An object whose controller owner is gone (or replaced by one of another uid).
Orphan(obj, name) ==
  /\ obj.exists
  /\ obj.owner.controller
  /\ ~(peeringServers[name].exists /\ peeringServers[name].uid = obj.owner.uid)

\* The store's garbage collector removes the objects owned by a deleted PeeringServer.
GarbageCollect(name) ==
  /\ \/ Orphan(configMaps[ConfigMapName(name)], name)
     \/ Orphan(services[ServiceName(name)], name)
     \/ Orphan(statefulSets[StatefulSetName(name)], name)
  /\ configMaps' = [configMaps EXCEPT ![ConfigMapName(name)] = IF Orphan(@, name) THEN Absent ELSE @]
  /\ services' = [services EXCEPT ![ServiceName(name)] = IF Orphan(@, name) THEN Absent ELSE @]
  /\ statefulSets' = [statefulSets EXCEPT ![StatefulSetName(name)] = IF Orphan(@, name) THEN Absent ELSE @]
  /\ tasks' = Disturb(name)
  /\ UNCHANGED <<peeringServers, resourceVersion, faults, engineVars>>
  /\ Track

\* Objects as somebody else may have left them: no owner, other field values.
DriftConfigMap(name) ==
  [exists |-> TRUE, name |-> ConfigMapName(name), namespace |-> WatchNamespace, owner |-> NoOwner,
   data |-> [peers |-> <<>>, pingInterval |-> 1]]

\* clusterIP is immutable: an edit keeps it, a new Service gets one assigned.
DriftService(name, existing) ==
  [exists |-> TRUE, name |-> ServiceName(name), namespace |-> WatchNamespace, owner |-> NoOwner,
   clusterIP |-> IF existing.exists THEN existing.clusterIP ELSE "10.0.0.5",
   selector |-> "other", port |-> 1, targetPort |-> 1]

DriftStatefulSet(name) ==
  [exists |-> TRUE, name |-> StatefulSetName(name), namespace |-> WatchNamespace, owner |-> NoOwner,
   serviceName |-> ServiceName(name), replicas |-> 7, selector |-> name, containerPort |-> 1,
   volumeConfigMap |-> ConfigMapName(name)]

ExternalDelete(kind, name) ==
  /\ faults < MaxFaults
  /\ faults' = faults + 1
  /\ \/ kind = "ConfigMap" /\ configMaps[ConfigMapName(name)].exists
          /\ configMaps' = [configMaps EXCEPT ![ConfigMapName(name)] = Absent]
          /\ UNCHANGED <<services, statefulSets>>
     \/ kind = "Service" /\ services[ServiceName(name)].exists
          /\ services' = [services EXCEPT ![ServiceName(name)] = Absent]
          /\ UNCHANGED <<configMaps, statefulSets>>
     \/ kind = "StatefulSet" /\ statefulSets[StatefulSetName(name)].exists
          /\ statefulSets' = [statefulSets EXCEPT ![StatefulSetName(name)] = Absent]
          /\ UNCHANGED <<configMaps, services>>
  /\ tasks' = Disturb(name)
  /\ UNCHANGED <<peeringServers, resourceVersion, engineVars>>
  /\ Track

ExternalWrite(kind, name) ==
  /\ faults < MaxFaults
  /\ faults' = faults + 1
  /\ \/ kind = "ConfigMap"
          /\ configMaps' = [configMaps EXCEPT ![ConfigMapName(name)] = DriftConfigMap(name)]
          /\ UNCHANGED <<services, statefulSets>>
     \/ kind = "Service"
          /\ services' = [services EXCEPT ![ServiceName(name)] = DriftService(name, @)]
          /\ UNCHANGED <<configMaps, statefulSets>>
     \/ kind = "StatefulSet"
          /\ statefulSets' = [statefulSets EXCEPT ![StatefulSetName(name)] = DriftStatefulSet(name)]
          /\ UNCHANGED <<configMaps, services>>
  /\ tasks' = Disturb(name)
  /\ UNCHANGED <<peeringServers, resourceVersion, engineVars>>
  /\ Track

Kinds == {"ConfigMap", "Service", "StatefulSet"}

(* ------------------------------ start() -------------------------------- *)
\* The items of a list response, in name order.
RECURSIVE ListItems(_)
ListItems(names) ==
  IF names = <<>> THEN <<>>
  ELSE IF peeringServers[Head(names)].exists
       THEN <<PayloadOf(peeringServers[Head(names)])>> \o ListItems(Tail(names))
       ELSE ListItems(Tail(names))

\* A faulty variant of SyncList: a failed list call ends start().
SyncList_Rethrows ==
  /\ mainPc = "sync_list"
  /\ \/ ApiFault /\ mainPc' = "stopped" /\ UNCHANGED syncItems
     \/ NoFault /\ syncItems' = ListItems(NameSeq) /\ mainPc' = "sync_loop"
  /\ UNCHANGED <<storeVars, tasks, streams, undelivered>>
  /\ Track

\* syncExistingResources: listNamespacedCustomObject (lines 472-481); an error is caught (488).
SyncList ==
  /\ mainPc = "sync_list"
  /\ \/ ApiFault /\ mainPc' = "watch_call" /\ UNCHANGED syncItems
     \/ NoFault /\ syncItems' = ListItems(NameSeq) /\ mainPc' = "sync_loop"
  /\ UNCHANGED <<storeVars, tasks, streams, undelivered>>
  /\ Track

\* for (const item of items) await this.reconcile(item) (lines 483-487)
\* A faulty variant of PreviousReturned: the loop does not wait for the reconcile it started.
PreviousReturned_Always == TRUE

\* await this.reconcile(item) (line 484): the loop goes on when that reconcile has returned.
PreviousReturned == tasks[0].pc = "idle"

SyncNext ==
  /\ mainPc = "sync_loop"
  /\ PreviousReturned
  /\ IF syncItems = <<>>
     THEN mainPc' = "watch_call" /\ UNCHANGED <<syncItems, tasks>>
     ELSE /\ tasks' = BeginReconcile(0, Head(syncItems))
          /\ syncItems' = Tail(syncItems)
          /\ UNCHANGED mainPc
  /\ UNCHANGED <<storeVars, faults, streams, undelivered>>
  /\ Track

\* A watch opened without a resource version starts with the objects that exist.
InitialEvents == [i \in 1..Len(ListItems(NameSeq)) |-> [type |-> "ADDED", object |-> ListItems(NameSeq)[i]]]

\* this.watch.watch(path, {}, callback, done) (lines 509-522): the call opens a stream or throws.
WatchCall ==
  /\ mainPc = "watch_call"
  /\ \/ ApiFault /\ mainPc' = "backoff" /\ UNCHANGED streams
     \/ /\ NoFault
        /\ \E s \in StreamIds :
             /\ ~streams[s].open
             /\ \A r \in StreamIds : r < s => streams[r].open
             /\ streams' = [streams EXCEPT ![s] = [open |-> TRUE, queue |-> InitialEvents]]
        /\ mainPc' = "watch_wait"
  /\ UNCHANGED <<storeVars, syncItems, tasks, undelivered>>
  /\ Track

\* The promise of watch() resolves: the while (true) loop goes round (lines 507-509).
\* When that happens is the library's business: right after the request is sent or when
\* the stream ends.  (The loop is held here while MaxStreams streams are open.)
WatchReturn ==
  /\ mainPc = "watch_wait"
  /\ \E s \in StreamIds : ~streams[s].open
  /\ mainPc' = "watch_call"
  /\ UNCHANGED <<storeVars, faults, syncItems, tasks, streams, undelivered>>
  /\ Track

\* setTimeout(resolve, 5000) after a crashed watch (lines 523-527)
BackoffElapsed ==
  /\ mainPc = "backoff"
  /\ mainPc' = "watch_call"
  /\ UNCHANGED <<storeVars, faults, syncItems, tasks, streams, undelivered>>
  /\ Track

\* The stream breaks: the done callback only logs (lines 517-521); what was on it is gone.
StreamFail(s) ==
  /\ streams[s].open
  /\ faults < MaxFaults
  /\ faults' = faults + 1
  /\ streams' = [streams EXCEPT ![s] = ClosedStream]
  /\ UNCHANGED <<storeVars, mainPc, syncItems, tasks, undelivered>>
  /\ Track

\* A faulty variant of ReconcilesOn: DELETED is reconciled like the other events.
ReconcilesOn_Any(type) == TRUE

\* handleEvent reconciles on ADDED and MODIFIED; DELETED is only logged (lines 462-466).
ReconcilesOn(type) == type = "ADDED" \/ type = "MODIFIED"

\* The watch callback (lines 512-516): handleEvent is started and not awaited.
\* handleEvent (lines 455-467) runs up to the first await of reconcile.
Deliver(s) ==
  /\ streams[s].open
  /\ streams[s].queue # <<>>
  /\ LET event == Head(streams[s].queue) IN
       /\ IF ReconcilesOn(event.type)
          THEN \E t \in HandlerIds :
                 /\ tasks[t].pc = "idle"
                 /\ \A u \in HandlerIds : u < t => tasks[u].pc # "idle"
                 /\ tasks' = BeginReconcile(t, event.object)
          ELSE UNCHANGED tasks
       /\ undelivered' = undelivered \ {event.object.rv}
  /\ streams' = [streams EXCEPT ![s].queue = Tail(@)]
  /\ UNCHANGED <<storeVars, faults, mainPc, syncItems>>
  /\ Track

MainStep == SyncList \/ SyncNext \/ WatchCall \/ WatchReturn \/ BackoffElapsed

Environment ==
  \/ \E n \in EditedNames, sp \in SpecChoices : UserCreate(n, sp) \/ UserModify(n, sp)
  \/ \E n \in EditedNames : UserDelete(n) \/ GarbageCollect(n)
  \/ \E k \in Kinds, n \in EditedNames : ExternalDelete(k, n) \/ ExternalWrite(k, n)
  \/ \E s \in StreamIds : StreamFail(s)

Next ==
  \/ MainStep
  \/ \E t \in TaskIds : TaskStep(t)
  \/ \E s \in StreamIds : Deliver(s)
  \/ Environment

Spec == Init /\ [][Next]_vars

\* The event loop runs every promise that can go on; the environment owes nothing.
Fairness ==
  /\ WF_vars(MainStep)
  /\ \A t \in TaskIds : WF_vars(TaskStep(t))
  /\ \A s \in StreamIds : WF_vars(Deliver(s))

FairSpec == Spec /\ Fairness

(* --------------- start() with PeeringServers already there --------------- *)
\* What a StatefulSet reports: nothing yet, replicas only (Kubernetes leaves a zero
\* readyReplicas out of the object), or both counts.
StatusChoices ==
  { EmptyObject, [replicas |-> 2], [replicas |-> 2, readyReplicas |-> 1] }

\* The StatefulSet controller publishes the status of the StatefulSet `name`.
ControllerReports(name, status) ==
  /\ statefulSets[StatefulSetName(name)].exists
  /\ statefulSetStatus[name] # status
  /\ statefulSetStatus' = [statefulSetStatus EXCEPT ![name] = status]
  /\ UNCHANGED <<storeVars, faults, engineVars, tasks, settled, erred>>
  /\ UNCHANGED serverVars

\* A PeeringServer created before the operator started.
Existing(name, version, spec) ==
  [exists |-> TRUE, name |-> name, namespace |-> WatchNamespace, uid |-> version, rv |-> version,
   spec |-> spec, phase |-> "", replicas |-> 0, readyReplicas |-> 0]

\* The operator starts on a namespace where each PeeringServer may already exist and
\* none of the owned objects does.
StartupInit ==
  /\ peeringServers \in
       { [n \in Names |-> IF n \in present THEN Existing(n, IF n = "ps" THEN 1 ELSE 2, specOf[n])
                                            ELSE Absent] :
           present \in SUBSET Names, specOf \in [Names -> SpecChoices] }
  /\ configMaps = [o \in ObjNames |-> Absent]
  /\ services = [o \in ObjNames |-> Absent]
  /\ statefulSets = [o \in ObjNames |-> Absent]
  /\ resourceVersion = 2
  /\ statefulSetStatus = [n \in Names |-> EmptyObject]
  /\ faults = 0
  /\ mainPc = "sync_list"
  /\ syncItems = <<>>
  /\ tasks = [t \in TaskIds |-> Idle]
  /\ streams = [s \in StreamIds |-> ClosedStream]
  /\ undelivered = {}
  /\ settled = Unsettled
  /\ erred = FALSE
  /\ ServerOff

\* start() and the reconciles it runs, the StatefulSet controller and a breaking stream.
StartupNext ==
  \/ MainStep
  \/ \E t \in TaskIds : TaskStep(t)
  \/ \E s \in StreamIds : Deliver(s)
  \/ \E s \in StreamIds : StreamFail(s)
  \/ \E n \in Names, st \in StatusChoices : ControllerReports(n, st)

StartupSpec == StartupInit /\ [][StartupNext]_vars

(* ------------------------- the peering server --------------------------- *)
MaxFileOps == 1
MaxTicks == 3
MaxRequests == 1
MaxSignals == 1

\* axios timeout: 5000 (line 124)
PingTimeoutMs == 5000

Peer0 == [host |-> "ps-0.ps-headless.default.svc.cluster.local", port |-> 8080]
Peer1 == [host |-> "ps-1.ps-headless.default.svc.cluster.local", port |-> 8080]
Peer2 == [host |-> "ps-2.ps-headless.default.svc.cluster.local", port |-> 8080]

\* What may be found in the file: text that is not JSON, the object {}, an object
\* with peers and no pingInterval, and two documents of the ServerConfig shape.
FileChoices ==
  { [exists |-> TRUE, json |-> FALSE, value |-> EmptyObject],
    [exists |-> TRUE, json |-> TRUE, value |-> EmptyObject],
    [exists |-> TRUE, json |-> TRUE, value |-> [peers |-> <<Peer0>>]],
    [exists |-> TRUE, json |-> TRUE,
     value |-> [peers |-> <<Peer0, Peer1>>, pingInterval |-> 1000]],
    [exists |-> TRUE, json |-> TRUE,
     value |-> [peers |-> <<Peer2>>, pingInterval |-> 6000]] }

HasProperty(obj, key) == key \in DOMAIN obj

\* loadConfig reaches `this.config = newConfig` (lines 74-81): the file exists,
\* JSON.parse returns, and newConfig.peers.length does not throw.
Loads(f) == f.exists /\ f.json /\ HasProperty(f.value, "peers")

\* A faulty variant of LoadedConfig: the new peers are added to the ones held.
LoadedConfig_KeepsPeers(f, cfg) ==
  IF Loads(f) THEN [f.value EXCEPT !.peers = cfg.peers \o @] ELSE cfg

\* this.config after loadConfig (lines 72-95): the parsed object as it is, or the
\* config held before when the try block was left early.
LoadedConfig(f, cfg) == IF Loads(f) THEN f.value ELSE cfg

\* The delay setInterval runs with (line 168): a delay that is missing or below 1 is 1.
Delay(cfg) ==
  IF HasProperty(cfg, "pingInterval") /\ cfg.pingInterval >= 1 THEN cfg.pingInterval ELSE 1

\* this.config.peers.map((peer) => this.pingPeer(peer)) (line 152) for call number k.
NewPings(cfg, k) ==
  { [tick |-> k, index |-> i, peer |-> cfg.peers[i], age |-> 0, outcome |-> "pending"] :
      i \in 1..Len(cfg.peers) }

\* The pings with p's outcome noted.
Noted(inFlight, p, outcome) ==
  (inFlight \ {p}) \cup {[p EXCEPT !.outcome = outcome, !.age = 0]}

\* A faulty variant of Settled: a failed ping ends the whole call, as Promise.all would.
Settled_FailFast(inFlight, p, outcome) ==
  IF outcome # "pong" \/ \A q \in inFlight \ {p} : q.tick = p.tick => q.outcome # "pending"
  THEN { q \in inFlight : q.tick # p.tick }
  ELSE Noted(inFlight, p, outcome)

\* pingPeer catches its own error (lines 132-140), so its promise always resolves;
\* Promise.allSettled (line 153) resolves, and pingAllPeers returns, when every ping of
\* the call has ended.
Settled(inFlight, p, outcome) ==
  IF \A q \in inFlight \ {p} : q.tick = p.tick => q.outcome # "pending"
  THEN { q \in inFlight : q.tick # p.tick }
  ELSE Noted(inFlight, p, outcome)

JsIdle == proc = "running" /\ handlerPc = "none"

\* A faulty variant of ClearInterval: the timer is left running.
ClearInterval_Skipped(tm) == tm

\* if (this.pingIntervalId) clearInterval(this.pingIntervalId) (lines 158-160, 186-188)
ClearInterval(tm) == [tm EXCEPT !.set = FALSE]

\* this.pingIntervalId = setInterval(..., delay) (lines 166-168): a timer still running
\* under the old id runs on.
SetInterval(tm, delay) ==
  [set |-> TRUE, interval |-> delay, remaining |-> delay,
   others |-> IF tm.set THEN tm.others + 1 ELSE tm.others]

\* A faulty variant of StartPinging: the interval is set and nothing is pinged until
\* it fires.
StartPinging_TimerOnly(cfg) ==
  /\ UNCHANGED <<pings, tickCount>>
  /\ timer' = SetInterval(ClearInterval(timer), Delay(cfg))

\* startPinging (lines 156-171) run by loadConfig (line 88): the old interval is
\* cleared, pingAllPeers is called at once, a new interval is set.
StartPinging(cfg) ==
  /\ pings' = pings \cup NewPings(cfg, tickCount + 1)
  /\ tickCount' = tickCount + 1
  /\ timer' = SetInterval(ClearInterval(timer), Delay(cfg))

\* loadConfig (lines 72-95)
LoadConfig ==
  /\ config' = LoadedConfig(file, config)
  /\ IF Loads(file) THEN StartPinging(config') ELSE UNCHANGED <<pings, tickCount, timer>>

\* new PeeringServer(PORT, CONFIG_PATH) and server.start() (lines 39-49, 173-216, 223-224)
Construct ==
  /\ proc = "new"
  /\ proc' = "running"
  /\ LoadConfig
  /\ watcher' = [open |-> TRUE, pending |-> FALSE]
  /\ listener' = "listening"
  /\ UNCHANGED <<file, fileOps, reloaded, inflight, handlerPc, signals, vars>>

\* The file is written with other content.  chokidar reports `change` for a file it
\* knows, once the write is stable; a file that appears is an `add`, which has no handler.
FileWrite(content) ==
  /\ proc = "running"
  /\ fileOps < MaxFileOps
  /\ content # file
  /\ file' = content
  /\ fileOps' = fileOps + 1
  /\ watcher' = [watcher EXCEPT !.pending = @ \/ (watcher.open /\ file.exists)]
  /\ reloaded' = FALSE
  /\ UNCHANGED <<proc, config, timer, pings, tickCount, listener, inflight, handlerPc, signals, vars>>

\* configWatcher.on('change', ...) (lines 110-113)
OnChange ==
  /\ JsIdle
  /\ watcher.open /\ watcher.pending
  /\ Loads(file) => tickCount < MaxTicks
  /\ LoadConfig
  /\ watcher' = [watcher EXCEPT !.pending = FALSE]
  /\ reloaded' = Loads(file)
  /\ UNCHANGED <<proc, file, fileOps, listener, inflight, handlerPc, signals, vars>>

\* The setInterval callback (lines 166-168): pingAllPeers, not awaited.
TimerFires ==
  /\ JsIdle
  /\ timer.set /\ timer.remaining = 0
  /\ tickCount < MaxTicks
  /\ pings' = pings \cup NewPings(config, tickCount + 1)
  /\ tickCount' = tickCount + 1
  /\ timer' = [timer EXCEPT !.remaining = timer.interval]
  /\ UNCHANGED <<proc, file, fileOps, config, watcher, reloaded, listener, inflight,
                 handlerPc, signals, vars>>

PingOutcomes == {"pong", "refused", "timeout", "error"}

\* axios.get ends (lines 122-140): a timeout after 5000 ms, anything else before.
PingSettles(p, outcome) ==
  /\ JsIdle
  /\ p \in pings
  /\ p.outcome = "pending"
  /\ (outcome = "timeout") = (p.age >= PingTimeoutMs)
  /\ pings' = Settled(pings, p, outcome)
  /\ UNCHANGED <<proc, file, fileOps, config, timer, tickCount, watcher, reloaded, listener,
                 inflight, handlerPc, signals, vars>>

\* One second goes by, unless a timer or a timeout is due first.
Elapse ==
  /\ proc = "running"
  /\ ~(timer.set /\ timer.remaining = 0)
  /\ \A p \in pings : p.age < PingTimeoutMs
  /\ pings' = { IF p.outcome = "pending" THEN [p EXCEPT !.age = @ + 1000] ELSE p : p \in pings }
  /\ timer' = [timer EXCEPT !.remaining = IF @ > 1000 THEN @ - 1000 ELSE 0]
  /\ UNCHANGED <<proc, file, fileOps, config, tickCount, watcher, reloaded, listener,
                 inflight, handlerPc, signals, vars>>

\* app.listen (line 174): a request arrives at /health, /ping or /config (lines 53-69).
RequestArrives ==
  /\ proc = "running"
  /\ listener = "listening"
  /\ inflight < MaxRequests
  /\ inflight' = inflight + 1
  /\ UNCHANGED <<proc, file, fileOps, config, timer, pings, tickCount, watcher, reloaded,
                 listener, handlerPc, signals, vars>>

RequestDone ==
  /\ JsIdle
  /\ inflight > 0
  /\ inflight' = inflight - 1
  /\ UNCHANGED <<proc, file, fileOps, config, timer, pings, tickCount, watcher, reloaded,
                 listener, handlerPc, signals, vars>>

Signals == {"SIGTERM", "SIGINT"}

\* process.on('SIGTERM' / 'SIGINT', ...) (lines 183, 200): the two handlers are the same.
Signal(sig) ==
  /\ JsIdle
  /\ signals < MaxSignals
  /\ signals' = signals + 1
  /\ handlerPc' = "clear_timer"
  /\ UNCHANGED <<proc, file, fileOps, config, timer, pings, tickCount, watcher, reloaded,
                 listener, inflight, vars>>

\* clearInterval(this.pingIntervalId) (lines 186-188, 203-205)
HandlerClearTimer ==
  /\ proc = "running" /\ handlerPc = "clear_timer"
  /\ timer' = ClearInterval(timer)
  /\ handlerPc' = "close_watcher"
  /\ UNCHANGED <<proc, file, fileOps, config, pings, tickCount, watcher, reloaded, listener,
                 inflight, signals, vars>>

\* this.configWatcher.close() (lines 190-192, 207-209)
HandlerCloseWatcher ==
  /\ proc = "running" /\ handlerPc = "close_watcher"
  /\ watcher' = [open |-> FALSE, pending |-> FALSE]
  /\ handlerPc' = "close_listener"
  /\ UNCHANGED <<proc, file, fileOps, config, timer, pings, tickCount, reloaded, listener,
                 inflight, signals, vars>>

\* server.close(callback) (lines 194-197, 211-214): no new connection is accepted.
HandlerCloseListener ==
  /\ proc = "running" /\ handlerPc = "close_listener"
  /\ listener' = IF listener = "listening" THEN "closing" ELSE listener
  /\ handlerPc' = "none"
  /\ UNCHANGED <<proc, file, fileOps, config, timer, pings, tickCount, watcher, reloaded,
                 inflight, signals, vars>>

\* The listener has closed once the requests in flight are served.
ListenerClosed ==
  /\ proc = "running"
  /\ listener = "closing" /\ inflight = 0
  /\ listener' = "closed"
  /\ UNCHANGED <<proc, file, fileOps, config, timer, pings, tickCount, watcher, reloaded,
                 inflight, handlerPc, signals, vars>>

\* A faulty variant of ExitReady: the exit does not wait for the listener.
ExitReady_AtOnce == listener # "listening"

\* The callback of server.close runs when the listener has closed (lines 194, 211).
ExitReady == listener = "closed"

\* process.exit(0) (lines 196, 213)
Exit ==
  /\ JsIdle
  /\ ExitReady
  /\ proc' = "exited"
  /\ UNCHANGED <<file, fileOps, config, timer, pings, tickCount, watcher, reloaded, listener,
                 inflight, handlerPc, signals, vars>>

ServerInit ==
  /\ OperatorInit
  /\ proc = "new"
  /\ file \in FileChoices \cup {MissingFile}
  /\ fileOps = 0
  /\ config = DefaultConfig
  /\ timer = NoTimer
  /\ pings = {}
  /\ tickCount = 0
  /\ watcher = [open |-> FALSE, pending |-> FALSE]
  /\ reloaded = FALSE
  /\ listener = "none"
  /\ inflight = 0
  /\ handlerPc = "none"
  /\ signals = 0

ServerNext ==
  \/ Construct
  \/ \E content \in FileChoices : FileWrite(content)
  \/ OnChange
  \/ TimerFires
  \/ \E p \in pings, outcome \in PingOutcomes : PingSettles(p, outcome)
  \/ Elapse
  \/ RequestArrives
  \/ RequestDone
  \/ \E sig \in Signals : Signal(sig)
  \/ HandlerClearTimer
  \/ HandlerCloseWatcher
  \/ HandlerCloseListener
  \/ ListenerClosed
  \/ Exit

ServerSpec == ServerInit /\ [][ServerNext]_<<vars, serverVars>>

(* ------------------------------ claims ---------------------------------- *)
OwnedObjects == <<configMaps, services, statefulSets>>

\* Invocation t takes a step.
StepOf(t) == tasks[t].pc # "idle" /\ tasks'[t].pc # tasks[t].pc

\* replicas < 0 or pingInterval <= 0
InvalidSpec(spec) == spec.replicas < 0 \/ spec.pingInterval <= 0

\* The peer list of the spec's section 3, written out ordinal by ordinal.
ExpectedPeers(name, namespace, replicas, port) ==
  [i \in 1..replicas |->
     [host |-> name \o "-" \o ToString(i - 1) \o "." \o name \o "-headless." \o namespace
                 \o ".svc.cluster.local",
      port |-> port]]

ExpectedPort(ps) == IF ps.spec.port = 0 THEN 8080 ELSE ps.spec.port

ExpectedOwner(ps) ==
  [name |-> ps.name, uid |-> ps.uid, controller |-> TRUE, blockOwnerDeletion |-> TRUE]

\* C1: once a reconcile of PS has returned successfully and the owned objects are as it
\* left them, no step of any further reconcile of the same PS changes the ConfigMap,
\* the Service or the StatefulSet: any number of calls leaves what one call leaves.
C1_ReconcileIdempotent ==
  [][\A t \in TaskIds :
       (settled.valid /\ tasks[t].ps = settled.ps /\ StepOf(t)) => UNCHANGED OwnedObjects]_vars

\* C1 witness: a further reconcile of the same PS has made its three writes on the
\* objects a successful one left.
C1_Witness ==
  /\ settled.valid
  /\ \E t \in TaskIds :
       tasks[t].ps = settled.ps /\ tasks[t].pc = "st_read" /\ tasks[t].phase = "Running"

\* C2: a reconcile of PS that met no API error, with nobody else editing the owned
\* objects while it ran, returns with the ConfigMap, the Service and the StatefulSet
\* equal to the desired objects computed from PS.
C2_ConvergesToDesired ==
  [][\A t \in TaskIds :
       (CompletesOK(t) /\ tasks[t].clean) =>
         /\ configMaps'[ConfigMapName(tasks[t].ps.name)] = DesiredConfigMap(tasks[t].ps)
         /\ services'[ServiceName(tasks[t].ps.name)] = createHeadlessService(tasks[t].ps)
         /\ statefulSets'[StatefulSetName(tasks[t].ps.name)] = createStatefulSet(tasks[t].ps)]_vars

\* C3: when a reconcile of PS returns successfully the store holds a ConfigMap
\* <ps>-config, a Service <ps>-headless and a StatefulSet <ps> (and no other object of
\* PS under another name), each owned by PS (name and uid) with controller and
\* blockOwnerDeletion set.
C3_OwnedByPS ==
  [][\A t \in TaskIds :
       (CompletesOK(t) /\ tasks[t].clean) =>
         LET ps == tasks[t].ps
             Owned(obj) == obj.exists /\ obj.owner = ExpectedOwner(ps)
         IN /\ Owned(configMaps'[ps.name \o "-config"])
            /\ Owned(services'[ps.name \o "-headless"])
            /\ Owned(statefulSets'[ps.name])
            /\ \A o \in ObjNames :
                 /\ configMaps'[o].exists => o = ps.name \o "-config"
                 /\ services'[o].exists => o = ps.name \o "-headless"
                 /\ statefulSets'[o].exists => o = ps.name]_vars

\* C4: when a reconcile of PS (replicas N, namespace ns, name n, port p) returns
\* successfully, the peers of the ConfigMap are the N entries
\* <n>-<i>.<n>-headless.<ns>.svc.cluster.local : p for i = 0..N-1, in that order.
C4_PeerList ==
  [][\A t \in TaskIds :
       (CompletesOK(t) /\ tasks[t].clean) =>
         LET ps == tasks[t].ps
             cm == configMaps'[ps.name \o "-config"]
         IN /\ cm.exists
            /\ cm.data.peers = ExpectedPeers(ps.name, NamespaceOf(ps), ps.spec.replicas, ExpectedPort(ps))
            /\ Len(cm.data.peers) = ps.spec.replicas]_vars

\* C5: when a reconcile of PS returns successfully, the ConfigMap's pingInterval, the
\* StatefulSet's replicas, and the Service port, the container port and every peer's
\* port are those of PS.spec (8080 for an unset port).
C5_ScalarsMirrorSpec ==
  [][\A t \in TaskIds :
       (CompletesOK(t) /\ tasks[t].clean) =>
         LET ps == tasks[t].ps
             cm == configMaps'[ps.name \o "-config"]
             svc == services'[ps.name \o "-headless"]
             sts == statefulSets'[ps.name]
         IN /\ cm.exists /\ svc.exists /\ sts.exists
            /\ cm.data.pingInterval = ps.spec.pingInterval
            /\ sts.replicas = ps.spec.replicas
            /\ svc.port = ExpectedPort(ps)
            /\ sts.containerPort = ExpectedPort(ps)
            /\ \A i \in 1..Len(cm.data.peers) : cm.data.peers[i].port = ExpectedPort(ps)]_vars

\* C6: no step changes the clusterIP of a Service that exists before and after it, and
\* the Service object a reconcile is about to send in a replace carries the clusterIP of
\* the Service in the store (nobody else having edited the objects under it).
C6_ClusterIPPreserved ==
  [][/\ \A o \in ObjNames :
          (services[o].exists /\ services'[o].exists) => services'[o].clusterIP = services[o].clusterIP
     /\ \A t \in TaskIds :
          (tasks[t].pc = "svc_replace" /\ tasks[t].clean /\ services[ServiceName(tasks[t].ps.name)].exists)
            => ServiceBody(tasks[t]).clusterIP = services[ServiceName(tasks[t].ps.name)].clusterIP]_vars

\* C6 witness: the operator has replaced a Service that had a clusterIP assigned, and
\* the Service still has it.
C6_Witness ==
  \E n \in Names :
    /\ services[ServiceName(n)].exists
    /\ services[ServiceName(n)].owner.controller
    /\ services[ServiceName(n)].clusterIP = "10.0.0.5"

\* C7: when a reconcile attempt of PS returns, PS.status.phase is Failed if the attempt
\* raised a non-conflict error and Running otherwise (a 409 conflict included).
C7_PhaseFailedIffNonConflict ==
  [][\A t \in TaskIds :
       (Completes(t) /\ peeringServers'[tasks[t].ps.name].exists) =>
         peeringServers'[tasks[t].ps.name].phase =
           IF tasks[t].err = "other" THEN "Failed" ELSE "Running"]_vars

\* C8: a reconcile of a PeeringServer with replicas < 0 or pingInterval <= 0 creates or
\* replaces none of the owned objects and returns with phase Failed.
C8_InvalidSpecRejected ==
  [][\A t \in TaskIds :
       (StepOf(t) /\ InvalidSpec(tasks[t].ps.spec)) =>
         /\ UNCHANGED OwnedObjects
         /\ (tasks'[t].pc = "idle" /\ peeringServers'[tasks[t].ps.name].exists)
              => peeringServers'[tasks[t].ps.name].phase = "Failed"]_vars

\* C9: every event the store has put on a watch stream is eventually passed to
\* handleEvent, and whenever no watch stream is open after the initial sync a watch
\* stream is eventually open again.
C9_AtLeastOnceDelivery ==
  /\ \A r \in 1..MaxUserOps : (r \in undelivered) ~> (r \notin undelivered)
  /\ (~SomeStreamOpen /\ mainPc \notin {"sync_list", "sync_loop"}) ~> SomeStreamOpen

\* C10: no two reconcile invocations for the same (namespace, name) are in progress
\* together.
C10_ReconcilesSerialized ==
  \A t1, t2 \in TaskIds :
    (t1 # t2 /\ tasks[t1].pc # "idle" /\ tasks[t2].pc # "idle") =>
      ~(tasks[t1].ps.name = tasks[t2].ps.name /\ NamespaceOf(tasks[t1].ps) = NamespaceOf(tasks[t2].ps))

\* Stream s hands its first event to the watch callback.
Delivers(s) ==
  /\ streams[s].open /\ streams[s].queue # <<>>
  /\ streams'[s].open /\ streams'[s].queue = Tail(streams[s].queue)

\* C11: handling a DELETED event starts no reconcile and changes nothing in the store
\* (no create, replace, delete or status patch); no step of the operator ever removes
\* an owned object, and every owned object the operator writes carries the controller
\* owner reference of its PeeringServer, through which the store removes it.
C11_DeletedOnlyLogged ==
  [][/\ \A s \in StreamIds :
          (Delivers(s) /\ Head(streams[s].queue).type = "DELETED")
            => UNCHANGED <<storeVars, tasks>>
     /\ \A t \in TaskIds : \A o \in ObjNames :
          StepOf(t) =>
            /\ configMaps'[o] # configMaps[o]
                 => configMaps'[o].exists /\ configMaps'[o].owner = ExpectedOwner(tasks[t].ps)
            /\ services'[o] # services[o]
                 => services'[o].exists /\ services'[o].owner = ExpectedOwner(tasks[t].ps)
            /\ statefulSets'[o] # statefulSets[o]
                 => statefulSets'[o].exists /\ statefulSets'[o].owner = ExpectedOwner(tasks[t].ps)]_vars

\* C11 witness: a PeeringServer reconciled from a watch event has been deleted, the
\* DELETED event has been handled, and the store has removed the three owned objects
\* (no other client has touched them).
C11_Witness ==
  /\ faults = 0
  /\ \A n \in Names : ~peeringServers[n].exists
  /\ \E s \in StreamIds : streams[s].open /\ streams[s].queue = <<>>
  /\ \E t \in HandlerIds :
       /\ tasks[t].pc = "st_read" /\ tasks[t].phase = "Running" /\ ~tasks[t].clean
       /\ ~configMaps[ConfigMapName(tasks[t].ps.name)].exists
       /\ ~services[ServiceName(tasks[t].ps.name)].exists
       /\ ~statefulSets[StatefulSetName(tasks[t].ps.name)].exists

\* The place of a reconcile step in the order of the code (lines 336-349, 425, 436).
StepRank(pc) ==
  CASE pc = "cm_read" -> 1 [] pc = "cm_replace" -> 2 [] pc = "cm_create" -> 3
    [] pc = "svc_read" -> 4 [] pc = "svc_replace" -> 5 [] pc = "svc_create" -> 6
    [] pc = "sts_read" -> 7 [] pc = "sts_replace" -> 8 [] pc = "sts_create" -> 9
    [] pc = "st_read" -> 10 [] pc = "st_patch" -> 11 [] OTHER -> 12

\* C18: a reconcile call only moves forward through ConfigMap, Service, StatefulSet: it
\* writes the ConfigMap only in its ConfigMap step, the Service only in its Service step
\* (after the ConfigMap step), the StatefulSet only in its StatefulSet step (after the
\* Service step), and once a step has failed it writes none of the owned objects.
C18_WriteOrderAndAbort ==
  [][\A t \in TaskIds :
       StepOf(t) =>
         /\ StepRank(tasks'[t].pc) > StepRank(tasks[t].pc)
         /\ configMaps' # configMaps => tasks[t].pc \in {"cm_replace", "cm_create"}
         /\ services' # services => tasks[t].pc \in {"svc_replace", "svc_create"}
         /\ statefulSets' # statefulSets => tasks[t].pc \in {"sts_replace", "sts_create"}
         /\ tasks[t].err # "none" => UNCHANGED OwnedObjects
         /\ (tasks'[t].err # "none" /\ tasks[t].err = "none")
              => UNCHANGED OwnedObjects /\ tasks'[t].pc = "st_read"]_vars

\* C18 witness: a reconcile has written the ConfigMap, failed at the Service, and is in
\* its catch with neither the Service nor the StatefulSet written.
C18_Witness ==
  \E t \in TaskIds :
    /\ tasks[t].pc = "st_read" /\ tasks[t].err = "other" /\ tasks[t].clean
    /\ configMaps[ConfigMapName(tasks[t].ps.name)] = DesiredConfigMap(tasks[t].ps)
    /\ ~services[ServiceName(tasks[t].ps.name)].exists
    /\ ~statefulSets[StatefulSetName(tasks[t].ps.name)].exists

\* C19: when a reconcile in which a step raised an error returns, the PeeringServer (if
\* it still exists) has status phase Failed, whichever owned objects exist.
C19_FailureSurfaced ==
  [][\A t \in TaskIds :
       (Completes(t) /\ tasks[t].err # "none" /\ peeringServers'[tasks[t].ps.name].exists)
         => peeringServers'[tasks[t].ps.name].phase = "Failed"]_vars

\* C20: whenever the engine leaves the wait on a watch stream or the back-off after a
\* failed watch, its next step is the list of all PeeringServers (followed by their
\* reconciles), not the watch call.
C20_ListBeforeRewatch ==
  [][(mainPc \in {"watch_wait", "backoff"} /\ mainPc' # mainPc) => mainPc' = "sync_list"]_vars

(* --------------------------- claims: server ----------------------------- *)
\* The content is a document of the shape {peers: [{host, port}], pingInterval: number}.
WellFormed(f) ==
  /\ f.exists /\ f.json
  /\ DOMAIN f.value = {"peers", "pingInterval"}
  /\ \A i \in 1..Len(f.value.peers) : DOMAIN f.value.peers[i] = {"host", "port"}

\* pingAllPeers is called in this step.
TickStarts == tickCount' = tickCount + 1

\* The peers pinged by call number k.
PingedBy(inFlight, k) == { p.peer : p \in { q \in inFlight : q.tick = k } }

\* C12: once the change handler has loaded a well-formed document written to the config
\* file, every ping tick (the handler's own and each later one, until the file is
\* written again) pings exactly the peers of that document; and the process, once
\* running, never goes back to starting and leaves "running" only after a termination
\* signal.
C12_HotReload ==
  [][/\ (TickStarts /\ reloaded' /\ WellFormed(file'))
          => PingedBy(pings', tickCount') = { file'.value.peers[i] : i \in 1..Len(file'.value.peers) }
     /\ proc # "new" => proc' # "new"
     /\ (proc = "running" /\ proc' # "running") => signals > 0]_serverVars

\* C12 witness: the file has been overwritten once with the two-peer document, the
\* handler has loaded it and pinged its peers (tick 2), and the next timer tick (3)
\* has pinged them again.
C12_Witness ==
  /\ proc = "running" /\ reloaded /\ fileOps = 1
  /\ \E p, q \in pings : p.tick = 2 /\ p.peer = Peer1 /\ q.tick = 3 /\ q.peer = Peer1

\* The pings still awaited, each named by its tick and its place in the peer list.
Pending(inFlight) ==
  { <<q.tick, q.index>> : q \in { r \in inFlight : r.outcome = "pending" } }

\* C13: a tick issues a ping to every peer of the current config, and the end of one
\* ping, whatever its outcome, leaves every other pending ping pending and the process
\* running.
C13_PingIndependence ==
  [][/\ TickStarts =>
          \A i \in 1..Len(config'.peers) :
            [tick |-> tickCount', index |-> i, peer |-> config'.peers[i], age |-> 0,
             outcome |-> "pending"] \in pings'
     /\ Cardinality(Pending(pings) \ Pending(pings')) <= 1
     /\ Pending(pings) \ Pending(pings') # {} => proc' = "running"]_serverVars

\* C13 witness: of the two pings of one tick one has failed and the other is still
\* awaited, some time later.
C13_Witness ==
  \E p, q \in pings :
    /\ p.tick = q.tick
    /\ p.outcome \in {"refused", "timeout", "error"}
    /\ q.outcome = "pending" /\ q.age > 0

\* C14: when a tick starts, no ping of an earlier tick is still awaited.
C14_TicksDoNotOverlap ==
  [][TickStarts => Pending(pings) = {}]_serverVars

\* A load of the config file: by the constructor, or by the change handler.
LoadStep ==
  \/ proc = "new" /\ proc' = "running"
  \/ watcher.pending /\ watcher'.open /\ ~watcher'.pending

\* C15: a load that finds a file whose content is not of the shape
\* {peers: [{host, port}], pingInterval: number} leaves the config, the ping timer and
\* the tick count as they were, and the process running.
C15_ParseErrorKeepsConfig ==
  [][(LoadStep /\ file.exists /\ ~WellFormed(file))
       => /\ config' = config
          /\ timer' = timer
          /\ tickCount' = tickCount
          /\ proc' = "running"]_serverVars

\* The timer is cancelled before the watcher is stopped, the watcher is stopped before
\* the listener is closed, and the process exits only once the listener has closed
\* with no request in flight.
ShutdownOrder ==
  /\ (proc # "new" /\ ~watcher.open) => ~timer.set
  /\ listener \in {"closing", "closed"} => ~watcher.open /\ ~timer.set
  /\ proc = "exited" => listener = "closed" /\ inflight = 0

\* C16: the shutdown order holds in every state, and once a termination signal has been
\* received no tick starts and the config is not changed.
C16_GracefulShutdown ==
  /\ []ShutdownOrder
  /\ [][signals > 0 => tickCount' = tickCount /\ config' = config]_serverVars

\* C16 witness: the process has exited after a signal, having pinged before it, with
\* a loadable file content that was never applied.
C16_Witness ==
  /\ proc = "exited" /\ signals = 1
  /\ tickCount >= 1
  /\ Loads(file) /\ config # file.value

\* C17: a server started with no file at CONFIG_PATH has the config
\* {peers: [], pingInterval: 60000} and has pinged nobody, and until a termination
\* signal it is running with its listener listening.
C17_MissingConfigDefaults ==
  (proc # "new" /\ ~file.exists) =>
     /\ config = [peers |-> <<>>, pingInterval |-> 60000]
     /\ tickCount = 0 /\ pings = {}
     /\ signals = 0 => proc = "running" /\ listener = "listening"

\* C17 witness: the server, started without a config file, is serving a request.
C17_Witness ==
  /\ proc = "running" /\ ~file.exists /\ fileOps = 0
  /\ listener = "listening" /\ inflight = 1
  /\ config.pingInterval = 60000

(* ------------------------- claims: operator, II ------------------------- *)
\* A reconcile returns and leaves the operator with nothing to do: a watch stream is
\* open with every event handled, no reconcile is running, and nothing has gone wrong
\* so far (no API error, no reconcile error, no edit by another client).
LastReconcileReturns(t) ==
  /\ CompletesOK(t)
  /\ faults' = 0 /\ ~erred'
  /\ \A u \in TaskIds : tasks'[u].pc = "idle"
  /\ \E s \in StreamIds : streams'[s].open
  /\ \A s \in StreamIds : streams'[s].queue = <<>>
  /\ undelivered' = {}

\* C21: a stream hands over the events of a PeeringServer in increasing resource
\* version, and when the reconciles of all delivered events have returned without error
\* the ConfigMap, Service and StatefulSet are the desired objects of the PeeringServer
\* as it is in the store (its highest resource version).
C21_LatestSpecWins ==
  [][/\ \A s \in StreamIds :
          Delivers(s) =>
            \A i \in 1..Len(streams[s].queue) :
              streams[s].queue[i].object.name = Head(streams[s].queue).object.name
                => streams[s].queue[i].object.rv >= Head(streams[s].queue).object.rv
     /\ \A t \in TaskIds :
          (LastReconcileReturns(t) /\ peeringServers'[tasks[t].ps.name].exists) =>
            LET latest == PayloadOf(peeringServers'[tasks[t].ps.name]) IN
              /\ configMaps'[ConfigMapName(latest.name)] = DesiredConfigMap(latest)
              /\ services'[ServiceName(latest.name)] = createHeadlessService(latest)
              /\ statefulSets'[StatefulSetName(latest.name)] = createStatefulSet(latest)]_vars

\* C23: a step of updateStatus changes none of the owned objects and raises no error
\* in the reconcile; when the StatefulSet read or the status patch fails, the reconcile
\* returns, its caller goes on as it was, and no phase is recorded.
C23_StatusAdvisory ==
  [][\A t \in TaskIds :
       /\ (tasks[t].pc \in {"st_read", "st_patch"} /\ tasks'[t].pc # "idle") =>
            tasks'[t].err = tasks[t].err /\ tasks'[t].phase = tasks[t].phase
       /\ (StepOf(t) /\ tasks[t].pc \in {"st_read", "st_patch"}) =>
         /\ UNCHANGED OwnedObjects
         /\ erred' = erred
         /\ tasks'[t].pc \in {"idle", "st_patch"}
         /\ (faults' > faults
               \/ (tasks[t].pc = "st_read" /\ ~statefulSets[tasks[t].ps.name].exists)) =>
              /\ tasks'[t].pc = "idle"
              /\ UNCHANGED <<peeringServers, mainPc, syncItems>>]_vars

\* C23 witness: a reconcile has written the three objects and returned without error,
\* and the status call having failed, no phase was recorded.
C23_Witness ==
  /\ faults = 1 /\ ~erred
  /\ \A t \in TaskIds : tasks[t].pc = "idle"
  /\ \E n \in Names :
       /\ peeringServers[n].exists /\ peeringServers[n].phase = ""
       /\ configMaps[ConfigMapName(n)] = DesiredConfigMap(PayloadOf(peeringServers[n]))
       /\ services[ServiceName(n)] = createHeadlessService(PayloadOf(peeringServers[n]))
       /\ statefulSets[StatefulSetName(n)] = createStatefulSet(PayloadOf(peeringServers[n]))

(* ----------------------- claims: start() and status ---------------------- *)
InSync(pc) == pc \in {"sync_list", "sync_loop"}

\* C22: the initial sync precedes the watch.  The list is what the loop works through;
\* an item leaves the list only by having its reconcile started, in list order, and
\* only when the reconcile before it has returned; the loop is left only with no item
\* left and that reconcile returned; no stream is open and no handler runs while the
\* sync is going on, and a stream is opened only by the watch call that follows it.
C22_SyncPrecedesWatch ==
  [][/\ InSync(mainPc) =>
          /\ \A s \in StreamIds : ~streams[s].open
          /\ \A t \in HandlerIds : tasks[t].pc = "idle"
     /\ (mainPc = "sync_list" /\ mainPc' = "sync_loop") => syncItems' = ListItems(NameSeq)
     /\ (mainPc = "sync_loop" /\ syncItems' # syncItems) =>
          /\ tasks[0].pc = "idle"
          /\ syncItems # <<>> /\ syncItems' = Tail(syncItems)
          /\ tasks'[0].pc = "cm_read"
          /\ tasks'[0].ps = [Head(syncItems) EXCEPT !.rv = 0]
     /\ (tasks[0].pc = "idle" /\ tasks'[0].pc # "idle") =>
          mainPc = "sync_loop" /\ syncItems' # syncItems
     /\ (mainPc = "sync_loop" /\ mainPc' # "sync_loop") =>
          mainPc' = "watch_call" /\ syncItems = <<>> /\ tasks[0].pc = "idle"
     /\ (\E s \in StreamIds : ~streams[s].open /\ streams'[s].open) => mainPc = "watch_call"
     /\ (\E t \in HandlerIds : tasks[t].pc = "idle" /\ tasks'[t].pc # "idle") =>
          ~InSync(mainPc) /\ syncItems = <<>> /\ tasks[0].pc = "idle"]_vars

\* Both PeeringServers were listed and reconciled, the watch is open and a handler runs.
C22_Witness ==
  /\ faults = 0
  /\ mainPc = "watch_wait"
  /\ \E t \in HandlerIds : tasks[t].pc # "idle"
  /\ \A n \in Names : /\ peeringServers[n].exists
                       /\ configMaps[ConfigMapName(n)] = DesiredConfigMap(PayloadOf(peeringServers[n]))
                       /\ statefulSets[StatefulSetName(n)].exists

\* C26: failures are isolated in the initial sync.  When the reconcile the loop awaits
\* returns, after an error or not, the loop stands where it stood with the items it
\* had left; an error inside a reconcile leads to its updateStatus and nowhere else;
\* the loop is left only when every listed item has been taken; and start() goes from
\* the list call to the loop or, when the call failed, to the watch call.
C26_SyncFailureIsolated ==
  [][/\ (tasks[0].pc # "idle" /\ tasks'[0].pc = "idle") =>
          mainPc' = mainPc /\ syncItems' = syncItems
     /\ \A t \in TaskIds :
          (tasks[t].err = "none" /\ tasks'[t].err # "none") =>
             /\ tasks'[t].pc = "st_read" /\ tasks'[t].phase = "Failed"
             /\ mainPc' = mainPc /\ syncItems' = syncItems
     /\ (mainPc = "sync_loop" /\ mainPc' # "sync_loop") =>
          mainPc' = "watch_call" /\ syncItems = <<>>
     /\ (mainPc = "sync_list" /\ mainPc' # "sync_list") =>
          IF faults' > faults THEN mainPc' = "watch_call" ELSE mainPc' = "sync_loop"
     /\ mainPc' \in {"sync_list", "sync_loop", "watch_call", "watch_wait", "backoff"}]_vars

\* The reconcile of ps met an API error after it had written the ConfigMap; the one of
\* pt, listed after it, is running.
C26_Witness ==
  /\ faults = 1 /\ erred
  /\ mainPc = "sync_loop"
  /\ peeringServers["ps"].exists /\ ~InvalidSpec(peeringServers["ps"].spec)
  /\ configMaps[ConfigMapName("ps")].exists /\ ~statefulSets[StatefulSetName("ps")].exists
  /\ tasks[0].ps.name = "pt" /\ tasks[0].pc = "sts_create" /\ tasks[0].err = "none"

\* The count a StatefulSet status shows under `key`, 0 when it shows none.
Reported(status, key) == IF key \in DOMAIN status THEN status[key] ELSE 0

\* C25: the status a successful reconcile publishes.  What the reconcile reads of the
\* StatefulSet are the two counts its status shows at the read, 0 for a count it does
\* not show; the patch of a reconcile that made its three writes publishes phase
\* Running with the counts it read, and changes nothing else of the PeeringServer nor
\* any other object.
C25_PublishedStatus ==
  [][\A t \in TaskIds :
       LET name == tasks[t].ps.name IN
       /\ (tasks[t].pc = "st_read" /\ tasks'[t].pc = "st_patch") =>
            /\ tasks'[t].replicas = Reported(statefulSetStatus[name], "replicas")
            /\ tasks'[t].readyReplicas = Reported(statefulSetStatus[name], "readyReplicas")
            /\ tasks'[t].phase = tasks[t].phase
            /\ UNCHANGED peeringServers
       /\ (tasks[t].pc = "st_patch" /\ tasks'[t].pc = "st_patch") =>
            /\ tasks'[t].replicas = tasks[t].replicas
            /\ tasks'[t].readyReplicas = tasks[t].readyReplicas
            /\ tasks'[t].phase = tasks[t].phase
       /\ (tasks[t].pc = "st_patch" /\ tasks'[t].pc = "idle" /\ tasks[t].phase = "Running"
             /\ peeringServers' # peeringServers) =>
            /\ peeringServers'[name].phase = "Running"
            /\ peeringServers'[name].replicas = tasks[t].replicas
            /\ peeringServers'[name].readyReplicas = tasks[t].readyReplicas
            /\ PayloadOf(peeringServers'[name]) = PayloadOf(peeringServers[name])
            /\ \A n \in Names \ {name} : peeringServers'[n] = peeringServers[n]
            /\ UNCHANGED <<OwnedObjects, resourceVersion, statefulSetStatus>>]_vars

\* A successful reconcile has published the status of a StatefulSet that reports two
\* replicas and no ready one.
C25_Witness ==
  /\ faults = 0 /\ ~erred
  /\ \E n \in Names :
       /\ peeringServers[n].exists
       /\ statefulSetStatus[n] = [replicas |-> 2]
       /\ peeringServers[n].phase = "Running"
       /\ peeringServers[n].replicas = 2
       /\ peeringServers[n].readyReplicas = 0

(* ---------------------- claims: the ping schedule ------------------------ *)
\* The recurring ping timers running in the process.
ActiveTimers(tm) == (IF tm.set THEN 1 ELSE 0) + tm.others

\* C24: a single ping timer.  No step leaves more than one recurring ping timer
\* running; a load that restarts the schedule leaves exactly one, whose period is the
\* pingInterval just loaded and which has its whole period to run, and every ping that
\* was in flight is in flight after it, as it was.
C24_SingleTimer ==
  [][/\ ActiveTimers(timer') <= 1
     /\ (LoadStep /\ Loads(file)) =>
          /\ ActiveTimers(timer') = 1 /\ timer'.set
          /\ timer'.remaining = timer'.interval
          /\ WellFormed(file) => timer'.interval = file.value.pingInterval
          /\ pings \subseteq pings']_serverVars

\* The schedule was restarted by a reload while a timer was running and pings of the
\* first round were in flight.
C24_Witness ==
  /\ proc = "running" /\ reloaded /\ tickCount = 2
  /\ timer.set /\ timer.interval = 6000 /\ config.pingInterval = 6000
  /\ \E p \in pings : p.tick = 1 /\ p.outcome = "pending" /\ p.age > 0

\* C27: the immediate ping on load.  A load that reaches startPinging calls
\* pingAllPeers once in the same step, for exactly the peers just loaded, each ping
\* starting then, and the new timer has not fired: its whole period is still to run.
\* A load that finds no file or fails pings nothing and leaves the timer as it was.
C27_ImmediatePingOnLoad ==
  [][/\ (LoadStep /\ Loads(file)) =>
          /\ TickStarts
          /\ config' = file.value
          /\ { <<p.index, p.peer>> : p \in pings' \ pings } =
               { <<i, config'.peers[i]>> : i \in 1..Len(config'.peers) }
          /\ \A p \in pings' \ pings :
               p.tick = tickCount' /\ p.age = 0 /\ p.outcome = "pending"
          /\ timer'.set /\ timer'.remaining = timer'.interval /\ timer'.remaining > 0
     /\ (LoadStep /\ ~Loads(file)) =>
          /\ tickCount' = tickCount
          /\ pings' = pings
          /\ timer' = timer]_serverVars

\* A hot reload has just pinged the one peer of the document it loaded, and the timer
\* it set has its six seconds to run.
C27_Witness ==
  /\ proc = "running" /\ reloaded /\ tickCount = 2
  /\ timer.set /\ timer.remaining = 6000
  /\ { p.peer : p \in { q \in pings : q.tick = 2 /\ q.age = 0 } } = {Peer2}

====
